---- MODULE Spec2Model ----
(***************************************************************************)
(* WhoCast: the quiz component of src/src/components/WhoCast.tsx (the      *)
(* current version of the component, lines 1894-2900) with the /api/casts  *)
(* route of src/src/app/api/following/route.ts.                            *)
(*                                                                         *)
(* A Friend is modelled by its fid, a Cast by its hash, the length of its  *)
(* text and the fid of the friend it was tagged with.  JavaScript arrays   *)
(* are sequences (index i of the code is index i+1 here), the answers      *)
(* object is a function from cast hashes to fids.                          *)
(*                                                                         *)
(* React re-renders the component after every state update made by an      *)
(* event handler, before the next event is dispatched: every action below  *)
(* is one handler (or one resumption of an async handler) together with    *)
(* the re-render that follows it, so a handler reads the gameState of the  *)
(* latest render.  The one exception is SelectAnswerTwice (SpecStale).     *)
(***************************************************************************)
EXTENDS Integers, Sequences, FiniteSets, TLC

VARIABLES gameState, loading, error, allUsers, filteredUsers, mounted,
          inflight, unanswered, loader, searchQuery, lastOp

vars == <<gameState, loading, error, allUsers, filteredUsers, mounted,
          inflight, unanswered, loader, searchQuery, lastOp>>

----------------------------------------------------------------------------
(* Bounds of the model *)

\* fids of the accounts the signed-in user follows: 1..NumFriends
NumFriends == 6
\* outcomes of Math.random considered by a whole game: seeds 0..MaxSeed
MaxSeed == 0
\* outcomes of Math.random considered by SpecGen: seeds 0..MaxGenSeed
MaxGenSeed == 119
\* the fetches of one generateQuiz call that fail are among its first
\* MaxFailures or among its last MaxFailures fetches
MaxFailures == 1
\* the user gives at most MaxWrong wrong answers per quiz
MaxWrong == 1
\* SpecLoad: the pages of /api/following hold the fids 1..MaxPageFid
MaxPageFid == 3
\* SpecLoad: the page size requested (the code asks for 100) and the number
\* of friends wanted (the code wants 500), scaled down so that a load of
\* several pages reaches them
LoadPageSize == 2
LoadTarget == 4
\* the search queries typed have at most MaxQueryLen characters
MaxQueryLen == 2

(* Program constants *)

\* selection capacity and the number of friends a quiz needs
MaxSelected == 5
\* number of questions of a quiz
NumQuestions == 5
\* a cast is used when MinTextLen < text.length < MaxTextLen
MinTextLen == 20
MaxTextLen == 200
\* limit=100 of the request for a page of friends
PageLimit == 100
\* the load stops once it has 500 friends
TargetCount == 500

Fids == 1..NumFriends
NoError == "null"

----------------------------------------------------------------------------
(* Helpers for JavaScript array operations *)

Range(s) == {s[i] : i \in DOMAIN s}

\* Array.prototype.filter on fids: keep the elements different from x
Without(s, x) == SelectSeq(s, LAMBDA e : e # x)

\* Array.prototype.slice(0, n)
Slice(s, n) == SubSeq(s, 1, IF Len(s) < n THEN Len(s) ELSE n)

RemoveAt(s, i) == SubSeq(s, 1, i - 1) \o SubSeq(s, i + 1, Len(s))

RECURSIVE Fact(_)
Fact(n) == IF n <= 1 THEN 1 ELSE n * Fact(n - 1)

\* the k-th permutation of s in the order of the factorial number system;
\* k ranges over 0..Len(s)!-1 and every permutation of s is NthPerm(s, k)
\* for exactly one k
RECURSIVE NthPerm(_, _)
NthPerm(s, k) ==
    IF Len(s) = 0 THEN << >>
    ELSE LET f == Fact(Len(s) - 1)
             i == (k \div f) + 1
         IN  <<s[i]>> \o NthPerm(RemoveAt(s, i), k % f)

\* The d-th draw of the pseudo-random generator behind Math.random when it
\* starts from `seed`.  For a fixed d the map seed -> RandomDraw(seed, d) is
\* a bijection modulo 24 and modulo 120 (the multipliers 1, 7, 49, 103 are
\* coprime to both), so the seeds 0..23 give every order of a 4-element sort
\* and the seeds 0..119 every order of a 5-element sort, at every call site.
RandomDraw(seed, d) == seed * <<1, 7, 49, 103>>[(d % 4) + 1] + 29 * d

\* s.sort(() => Math.random() - 0.5): the comparator is inconsistent, the
\* result is some permutation of s, selected by the random outcome r
Shuffle(s, r) == NthPerm(s, r % Fact(Len(s)))

----------------------------------------------------------------------------
(* The casts collaborator *)

\* GET /api/casts?fid=f&limit=10 answers with the replies and recasts of f.
\* A recast carries the hash of the recast cast, so the feeds of two friends
\* can hold the same hash: here friends 1 and 2 both recast cast 0.  Every
\* feed also holds one cast of f alone, just long enough (21 characters;
\* far too long for friend 3, whose feed has no usable cast), and one whose
\* text is too short (20) or too long (200).
Feed(f) ==
    <<[hash |-> f, len |-> IF f = 3 THEN MaxTextLen + 50 ELSE MinTextLen + 1]>>
    \o (IF f \in {1, 2} THEN <<[hash |-> 0, len |-> MaxTextLen - 1]>> ELSE << >>)
    \o <<[hash |-> 100 + f, len |-> IF f % 2 = 1 THEN MinTextLen ELSE MaxTextLen]>>

\* outcome of the fetch for one friend: the response is ok, is not ok, or
\* fetch (or response.json) throws
FetchOutcome == {"ok", "notok", "throw"}

\* the error /api/casts answers with, status 500, when the environment has
\* no NEYNAR_API_KEY (lines 127-132)
ErrConfig == "Neynar API key is not configured"

\* what the fetch of /api/casts sees of the route: without an API key the
\* response is not ok and carries ErrConfig, with one it is ok when the
\* request to the feed succeeds and not ok (status 500, "Failed to fetch
\* casts") when it does not
castsResponse(apiKey, feedOk) ==
    IF ~apiKey THEN "noconfig" ELSE IF feedOk THEN "ok" ELSE "notok"

\* the outcomes of the fetches of one generateQuiz call, one per selected
\* friend in selection order
FetchOutcomes(n) ==
    {o \in [1..n -> FetchOutcome] :
        LET failed == {i \in 1..n : o[i] # "ok"}
        IN  \/ failed \subseteq 1..MaxFailures
            \/ failed \subseteq (n - MaxFailures + 1)..n}

----------------------------------------------------------------------------
(* The friends collaborator and fetchAllFriends, lines 1960-2024 *)

\* the sequences over S of length at most n
SeqUpTo(S, n) == UNION {[1..k -> S] : k \in 0..n}

\* data.nextCursor of a page that has none (null, undefined or "")
NoCursor == "null"
Cursors == {"c1", "c2"}

\* the bodies GET /api/following?limit=..&cursor=.. can answer with when
\* the response is ok: data.users and data.nextCursor
Pages(fids, size) ==
    [users : SeqUpTo(fids, size), nextCursor : Cursors \cup {NoCursor}]

\* a page request that fails: the response is not ok (line 1978), or fetch
\* or response.json throws
PageFailure == {"notok", "throw"}

\* the local variables of a fetchAllFriends call: allUsers and cursor
NoLoader == [allUsers |-> << >>, cursor |-> ""]

\* userList.filter((newUser) => !allUsers.some(...)), lines 1992-1997: the
\* users of the page whose fid is not in allUsers yet
uniqueUsers(allUsersLocal, userList) ==
    SelectSeq(userList, LAMBDA newUser : newUser \notin Range(allUsersLocal))

\* one pass through the body of the while loop once the page has arrived,
\* lines 1988-2006, and the test of the loop, line 1973: the local variables
\* after it and whether another page is requested
fetchedPage(acc, page, limit, target) ==
    LET userList == page.users
        all == acc.allUsers \o uniqueUsers(acc.allUsers, userList)
        hasMore == page.nextCursor # NoCursor /\ Len(userList) = limit
    IN  [allUsers |-> all,
         cursor |-> IF page.nextCursor = NoCursor THEN "" ELSE page.nextCursor,
         again |-> /\ ~(Len(userList) < limit)
                   /\ Len(all) < target
                   /\ hasMore]

ErrFriends == "Failed to fetch friends: <error of the response>"
ErrThrown == "<message of the error thrown by fetch>"

\* mutant: the friends fetched before the failure are shown
fetchFailed_KeepsPartial(acc, failure) ==
    [filteredUsers |-> acc.allUsers,
     error |-> IF failure = "notok" THEN ErrFriends ELSE ErrThrown]

\* the catch block, lines 2012-2018: the local allUsers is dropped
fetchFailed(acc, failure) ==
    [filteredUsers |-> << >>,
     error |-> IF failure = "notok" THEN ErrFriends ELSE ErrThrown]

----------------------------------------------------------------------------
(* The search filter, lines 2027-2053.  A string is a sequence of          *)
(* characters.                                                             *)

\* user.username and user.display_name of the friend with this fid
Username(fid) == <<IF fid % 3 = 1 THEN "a" ELSE "b", ToString(fid)>>

DisplayName(fid) ==
    IF fid % 3 = 1 THEN <<"A", " ", "B">>
    ELSE IF fid % 3 = 2 THEN <<"B", "a">>
    ELSE <<"B", "b">>

\* the characters typed into the search box
QueryChars == {"a", "B", " "}
Queries == SeqUpTo(QueryChars, MaxQueryLen)

\* String.prototype.toLowerCase
toLowerCase(s) ==
    [i \in DOMAIN s |-> IF s[i] = "A" THEN "a" ELSE IF s[i] = "B" THEN "b" ELSE s[i]]

\* String.prototype.includes
includes(s, sub) ==
    \E i \in 0..(Len(s) - Len(sub)) : SubSeq(s, i + 1, i + Len(sub)) = sub

\* String.prototype.trim
RECURSIVE trimStart(_)
trimStart(s) == IF s # << >> /\ s[1] = " " THEN trimStart(Tail(s)) ELSE s

RECURSIVE trimEnd(_)
trimEnd(s) ==
    IF s # << >> /\ s[Len(s)] = " " THEN trimEnd(SubSeq(s, 1, Len(s) - 1)) ELSE s

trim(s) == trimEnd(trimStart(s))

\* the callback of allUsers.filter, lines 2041-2043
matchesQuery(friend, query) ==
    LET searchLower == toLowerCase(query)
    IN  \/ includes(toLowerCase(Username(friend)), searchLower)
        \/ includes(toLowerCase(DisplayName(friend)), searchLower)

\* mutant: only the username is searched
searchFilter_UsernameOnly(users, query) ==
    IF trim(query) = << >> THEN users
    ELSE SelectSeq(users, LAMBDA friend :
            includes(toLowerCase(Username(friend)), toLowerCase(query)))

\* what the effect passes to setFilteredUsers
searchFilter(users, query) ==
    IF trim(query) = << >> THEN users
    ELSE SelectSeq(users, LAMBDA friend : matchesQuery(friend, query))

----------------------------------------------------------------------------
(* generateQuiz, lines 2056-2145 *)

\* castsWithAuthor: the casts of one response, each tagged with the friend
castsWithAuthor(friend) ==
    [i \in 1..Len(Feed(friend)) |->
        [hash |-> Feed(friend)[i].hash, len |-> Feed(friend)[i].len,
         author |-> friend]]

\* mutant: the casts of a response that is not ok are used as well
RECURSIVE allCasts_KeepsFailed(_, _, _)
allCasts_KeepsFailed(selectedFriends, outcome, i) ==
    IF i > Len(selectedFriends) THEN << >>
    ELSE castsWithAuthor(selectedFriends[i])
         \o allCasts_KeepsFailed(selectedFriends, outcome, i + 1)

\* allCasts after the loop over selectedFriends; a response that is not ok
\* is skipped
RECURSIVE allCasts(_, _, _)
allCasts(selectedFriends, outcome, i) ==
    IF i > Len(selectedFriends) THEN << >>
    ELSE (IF outcome[i] = "ok" THEN castsWithAuthor(selectedFriends[i])
          ELSE << >>)
         \o allCasts(selectedFriends, outcome, i + 1)

isValidCast(cast) == cast.len > MinTextLen /\ cast.len < MaxTextLen

validCasts(selectedFriends, outcome) ==
    SelectSeq(allCasts(selectedFriends, outcome, 1), isValidCast)

shuffledCasts(selectedFriends, outcome, seed) ==
    Slice(Shuffle(validCasts(selectedFriends, outcome), RandomDraw(seed, 1)),
          NumQuestions)

\* selectedFriends.find((f) => f.user.fid === fid)
findFriend(selectedFriends, fid) ==
    selectedFriends[CHOOSE i \in DOMAIN selectedFriends :
        /\ selectedFriends[i] = fid
        /\ \A j \in 1..(i - 1) : selectedFriends[j] # fid]

\* mutant: the author of the cast is not filtered out of the other friends
otherFriends_KeepsAuthor(selectedFriends, cast) == selectedFriends

otherFriends(selectedFriends, cast) == Without(selectedFriends, cast.author)

\* mutant: slice(0, 3) instead of slice(0, 4)
randomFriends_TakesThree(selectedFriends, cast, r) ==
    Slice(Shuffle(otherFriends(selectedFriends, cast), r), 3)

randomFriends(selectedFriends, cast, r) ==
    Slice(Shuffle(otherFriends(selectedFriends, cast), r), 4)

\* the callback of shuffledCasts.map: the question of one cast; r1 and r2
\* are the outcomes of its two random sorts
makeQuestion(selectedFriends, cast, r1, r2) ==
    LET correctFriend == findFriend(selectedFriends, cast.author)
    IN  [cast |-> cast,
         correctFriend |-> correctFriend,
         options |-> Shuffle(<<correctFriend>>
                             \o randomFriends(selectedFriends, cast, r1), r2)]

makeQuestions(selectedFriends, outcome, seed) ==
    LET casts == shuffledCasts(selectedFriends, outcome, seed)
    IN  [i \in 1..Len(casts) |->
            makeQuestion(selectedFriends, casts[i],
                         RandomDraw(seed, 2 * i), RandomDraw(seed, 2 * i + 1))]

ErrNotEnough == "Not enough casts found. Please try again."
ErrGenerate == "Failed to generate quiz"

EmptyAnswers == [h \in {} |-> 0]

\* mutant: only an empty selection is rejected
rejects_OnlyEmpty(selectedFriends) == Len(selectedFriends) = 0

\* if (selectedFriends.length !== 5) return, line 2057
rejects(selectedFriends) == Len(selectedFriends) # MaxSelected

\* mutant: a call that finds too few casts empties the selection
generateQuiz_DropsSelection(prev, selectedFriends, outcome, seed, err) ==
    IF \E i \in DOMAIN outcome : outcome[i] = "throw"
    THEN [gameState |-> prev, error |-> ErrGenerate]
    ELSE IF Len(validCasts(selectedFriends, outcome)) < NumQuestions
    THEN [gameState |-> [prev EXCEPT !.selectedFriends = << >>],
          error |-> ErrNotEnough]
    ELSE [gameState |->
            [prev EXCEPT !.questions = makeQuestions(selectedFriends, outcome, seed),
                         !.gameStarted = TRUE,
                         !.currentQuestionIndex = 0,
                         !.score = 0,
                         !.answers = EmptyAnswers],
          error |-> err]

\* mutant: gameStarted is not set by the final setGameState
generateQuiz_StaysSelecting(prev, selectedFriends, outcome, seed, err) ==
    IF \E i \in DOMAIN outcome : outcome[i] = "throw"
    THEN [gameState |-> prev, error |-> ErrGenerate]
    ELSE IF Len(validCasts(selectedFriends, outcome)) < NumQuestions
    THEN [gameState |-> prev, error |-> ErrNotEnough]
    ELSE [gameState |->
            [prev EXCEPT !.questions = makeQuestions(selectedFriends, outcome, seed),
                         !.currentQuestionIndex = 0,
                         !.score = 0,
                         !.answers = EmptyAnswers],
          error |-> err]

\* what one generateQuiz call that passed its length check does once its
\* fetches have returned: the next gameState and the next error
generateQuiz(prev, selectedFriends, outcome, seed, err) ==
    IF \E i \in DOMAIN outcome : outcome[i] = "throw"
    THEN [gameState |-> prev, error |-> ErrGenerate]
    ELSE IF Len(validCasts(selectedFriends, outcome)) < NumQuestions
    THEN [gameState |-> prev, error |-> ErrNotEnough]
    ELSE [gameState |->
            [prev EXCEPT !.questions = makeQuestions(selectedFriends, outcome, seed),
                         !.gameStarted = TRUE,
                         !.currentQuestionIndex = 0,
                         !.score = 0,
                         !.answers = EmptyAnswers],
          error |-> err]

----------------------------------------------------------------------------
(* The game state and its handlers *)

\* useState<GameState>(...), lines 1942-1950
InitialGameState ==
    [selectedFriends |-> << >>,
     questions |-> << >>,
     currentQuestionIndex |-> 0,
     score |-> 0,
     gameStarted |-> FALSE,
     gameFinished |-> FALSE,
     answers |-> EmptyAnswers]

isSelected(prev, friend) == \E i \in DOMAIN prev.selectedFriends :
                               prev.selectedFriends[i] = friend

\* mutant: <= 5 instead of < 5, a sixth friend can be added
toggleFriend_AllowsSixth(prev, friend) ==
    IF isSelected(prev, friend)
    THEN [prev EXCEPT !.selectedFriends = Without(prev.selectedFriends, friend)]
    ELSE IF Len(prev.selectedFriends) <= MaxSelected
    THEN [prev EXCEPT !.selectedFriends = Append(prev.selectedFriends, friend)]
    ELSE prev

\* mutant: a newly selected friend is put in front
toggleFriend_Prepends(prev, friend) ==
    IF isSelected(prev, friend)
    THEN [prev EXCEPT !.selectedFriends = Without(prev.selectedFriends, friend)]
    ELSE IF Len(prev.selectedFriends) < MaxSelected
    THEN [prev EXCEPT !.selectedFriends = <<friend>> \o prev.selectedFriends]
    ELSE prev

\* the updater of toggleFriend, lines 2148-2170
toggleFriend(prev, friend) ==
    IF isSelected(prev, friend)
    THEN [prev EXCEPT !.selectedFriends = Without(prev.selectedFriends, friend)]
    ELSE IF Len(prev.selectedFriends) < MaxSelected
    THEN [prev EXCEPT !.selectedFriends = Append(prev.selectedFriends, friend)]
    ELSE prev

\* gameState.questions[gameState.currentQuestionIndex] is defined
hasCurrentQuestion(gs) ==
    gs.currentQuestionIndex + 1 \in DOMAIN gs.questions

currentQuestion(gs) == gs.questions[gs.currentQuestionIndex + 1]

\* answers with key set to value ({...prev.answers, [key]: value})
withAnswer(answers, key, value) ==
    [h \in DOMAIN answers \cup {key} |-> IF h = key THEN value ELSE answers[h]]

\* mutant: the quiz finishes one question early (>= length - 1)
selectAnswer_FinishesEarly(closure, prev, selectedFriend) ==
    IF ~hasCurrentQuestion(closure) THEN prev
    ELSE LET nextQuestionIndex == prev.currentQuestionIndex + 1
         IN  [prev EXCEPT
                !.score = IF selectedFriend = currentQuestion(closure).correctFriend
                          THEN prev.score + 1 ELSE prev.score,
                !.currentQuestionIndex = nextQuestionIndex,
                !.gameFinished = nextQuestionIndex >= Len(prev.questions) - 1,
                !.answers = withAnswer(prev.answers,
                                       currentQuestion(closure).cast.hash,
                                       selectedFriend)]

\* mutant: no early return when there is no current question (the question
\* is read with optional chaining, the updater still runs)
selectAnswer_NoGuard(closure, prev, selectedFriend) ==
    LET nextQuestionIndex == prev.currentQuestionIndex + 1
    IN  IF ~hasCurrentQuestion(closure)
        THEN [prev EXCEPT
                !.currentQuestionIndex = nextQuestionIndex,
                !.gameFinished = nextQuestionIndex >= Len(prev.questions),
                !.answers = withAnswer(prev.answers, -1, selectedFriend)]
        ELSE [prev EXCEPT
                !.score = IF selectedFriend = currentQuestion(closure).correctFriend
                          THEN prev.score + 1 ELSE prev.score,
                !.currentQuestionIndex = nextQuestionIndex,
                !.gameFinished = nextQuestionIndex >= Len(prev.questions),
                !.answers = withAnswer(prev.answers,
                                       currentQuestion(closure).cast.hash,
                                       selectedFriend)]

\* mutant: > instead of >= in the test for the end of the quiz
selectAnswer_FinishesLate(closure, prev, selectedFriend) ==
    IF ~(closure.currentQuestionIndex + 1 \in DOMAIN closure.questions) THEN prev
    ELSE LET q == closure.questions[closure.currentQuestionIndex + 1]
             nextQuestionIndex == prev.currentQuestionIndex + 1
         IN  [prev EXCEPT
                !.score = IF selectedFriend = q.correctFriend
                          THEN prev.score + 1 ELSE prev.score,
                !.currentQuestionIndex = nextQuestionIndex,
                !.gameFinished = nextQuestionIndex > Len(prev.questions),
                !.answers = [h \in DOMAIN prev.answers \cup {q.cast.hash} |->
                                IF h = q.cast.hash THEN selectedFriend
                                ELSE prev.answers[h]]]

\* mutant: only a correct guess is recorded in answers
selectAnswer_RecordsOnlyCorrect(closure, prev, selectedFriend) ==
    IF ~hasCurrentQuestion(closure) THEN prev
    ELSE LET q == currentQuestion(closure)
             isCorrect == selectedFriend = q.correctFriend
             nextQuestionIndex == prev.currentQuestionIndex + 1
         IN  [prev EXCEPT
                !.score = IF isCorrect THEN prev.score + 1 ELSE prev.score,
                !.currentQuestionIndex = nextQuestionIndex,
                !.gameFinished = nextQuestionIndex >= Len(prev.questions),
                !.answers = IF isCorrect
                            THEN withAnswer(prev.answers, q.cast.hash, selectedFriend)
                            ELSE prev.answers]

\* selectAnswer, lines 2173-2202: `closure` is the gameState of the render
\* that created the handler (it supplies currentQuestion), `prev` the state
\* the updater is applied to
selectAnswer(closure, prev, selectedFriend) ==
    IF ~hasCurrentQuestion(closure) THEN prev
    ELSE LET q == currentQuestion(closure)
             isCorrect == selectedFriend = q.correctFriend
             nextQuestionIndex == prev.currentQuestionIndex + 1
         IN  [prev EXCEPT
                !.score = IF isCorrect THEN prev.score + 1 ELSE prev.score,
                !.currentQuestionIndex = nextQuestionIndex,
                !.gameFinished = nextQuestionIndex >= Len(prev.questions),
                !.answers = withAnswer(prev.answers, q.cast.hash, selectedFriend)]

\* mutant: the selection survives the reset ({...prev, questions: [], ...})
resetGame_KeepsSelection ==
    [selectedFriends |-> gameState.selectedFriends,
     questions |-> << >>,
     currentQuestionIndex |-> 0,
     score |-> 0,
     gameStarted |-> FALSE,
     gameFinished |-> FALSE,
     answers |-> [h \in {} |-> 0]]

\* resetGame, lines 2236-2246
resetGame ==
    [selectedFriends |-> << >>,
     questions |-> << >>,
     currentQuestionIndex |-> 0,
     score |-> 0,
     gameStarted |-> FALSE,
     gameFinished |-> FALSE,
     answers |-> EmptyAnswers]

----------------------------------------------------------------------------
(* The results: the friend performance of lines 308-325 and 668-681, the    *)
(* percentage of lines 2215-2217                                            *)

\* Math.round(num / den * 100) for 0 <= num <= den, 0 < den: the nearest
\* integer, a half rounded up (with at most NumQuestions questions the
\* floating-point quotient is never close to a half without being one)
roundedPercent(num, den) == (200 * num + den) \div (2 * den)

\* gameState.questions.filter((q) => q.correctFriend.user.fid === friend.user.fid)
friendQuestions(gs, friend) ==
    SelectSeq(gs.questions, LAMBDA q : q.correctFriend = friend)

\* friendQuestions.filter((q) => gameState.answers[q.cast.hash] === friend.user.fid)
correctGuesses(gs, friend) ==
    Len(SelectSeq(friendQuestions(gs, friend),
                  LAMBDA q : /\ q.cast.hash \in DOMAIN gs.answers
                             /\ gs.answers[q.cast.hash] = friend))

\* mutant: the accuracy is taken over all the questions of the quiz
friendPerformance_OverAllQuestions(gs, friend) ==
    [correctGuesses |-> correctGuesses(gs, friend),
     totalQuestions |-> Len(friendQuestions(gs, friend)),
     accuracy |-> IF Len(friendQuestions(gs, friend)) > 0
                  THEN roundedPercent(correctGuesses(gs, friend), Len(gs.questions))
                  ELSE 0]

\* what the callback of selectedFriends.map computes for one friend
friendPerformance(gs, friend) ==
    LET totalQuestions == Len(friendQuestions(gs, friend))
    IN  [correctGuesses |-> correctGuesses(gs, friend),
         totalQuestions |-> totalQuestions,
         accuracy |-> IF totalQuestions > 0
                      THEN roundedPercent(correctGuesses(gs, friend), totalQuestions)
                      ELSE 0]

\* percentage of generateShareText and of the results screen
percentage(gs) == roundedPercent(gs.score, Len(gs.questions))

----------------------------------------------------------------------------
(* What the rendered screens offer, lines 2314 and 2375-2848 *)

Phase(gs) == IF gs.gameFinished THEN "Finished"
             ELSE IF gs.gameStarted THEN "Playing"
             ELSE "Selecting"

\* mutant: the selection screen and its Start Quiz button stay rendered
\* while loading
selectionScreen_IgnoresLoading == ~gameState.gameStarted

\* the friend selection screen is rendered (line 2375)
selectionScreen == ~gameState.gameStarted /\ ~loading

\* toggleFriend(friend) can be clicked: the chip of a selected friend (line
\* 2447) or the list button of a listed friend, which is disabled for an
\* unselected friend once 5 are selected (lines 2489-2492)
toggleOffered(friend) ==
    /\ selectionScreen
    /\ \/ isSelected(gameState, friend)
       \/ /\ friend \in Range(filteredUsers)
          /\ ~(Len(gameState.selectedFriends) >= MaxSelected)

\* the Start Quiz button is rendered and enabled (lines 2531-2535)
startOffered ==
    selectionScreen /\ ~(Len(gameState.selectedFriends) < MaxSelected)

\* the quiz screen is rendered (lines 2549-2552)
quizScreen ==
    /\ gameState.gameStarted
    /\ ~gameState.gameFinished
    /\ hasCurrentQuestion(gameState)
    /\ ~loading

\* the first option button that is not the correct friend
firstWrong(q) ==
    q.options[CHOOSE i \in DOMAIN q.options :
        /\ q.options[i] # q.correctFriend
        /\ \A j \in 1..(i - 1) : q.options[j] = q.correctFriend]

\* the option buttons the user clicks (lines 2611-2614): the correct friend,
\* or the first wrong one while fewer than MaxWrong answers were wrong
AnswerChoices(gs) ==
    {currentQuestion(gs).correctFriend}
    \cup (IF gs.currentQuestionIndex - gs.score < MaxWrong
          THEN {firstWrong(currentQuestion(gs))} ELSE {})

answerOffered(friend) ==
    quizScreen /\ friend \in AnswerChoices(gameState)

\* the results screen with its Play Again button is rendered (lines 2655, 2845)
resetOffered == gameState.gameFinished /\ ~loading

----------------------------------------------------------------------------
(* Actions.  `ui` is TRUE when the handler is reached through the rendered  *)
(* screen.  With `ui` FALSE the handler of a control that is disabled or    *)
(* not rendered may be called directly as well: toggleFriend of a disabled  *)
(* list button, generateQuiz of the disabled Start Quiz button,             *)
(* selectAnswer outside a running quiz, resetGame in every state.           *)

\* the last operation, the phase it ran in, and `wrong`, the number of
\* selectAnswer calls of the current quiz that did not choose the correct
\* friend of the question they answered
Record(name, arg) ==
    [name |-> name, arg |-> arg, phase |-> Phase(gameState),
     twice |-> /\ name = "toggleFriend"
               /\ lastOp.name = "toggleFriend"
               /\ lastOp.arg = arg,
     wrong |-> lastOp.wrong]

\* 1 when selectAnswer(friend), called with the question of `closure`,
\* answers it wrongly
isWrong(closure, friend) ==
    IF hasCurrentQuestion(closure) /\ friend # currentQuestion(closure).correctFriend
    THEN 1 ELSE 0

Allowed(ui, offered, direct) == offered \/ (~ui /\ direct)

\* the list button of an unselected friend is rendered disabled (lines
\* 2489-2492)
toggleDisabled(friend) ==
    /\ selectionScreen
    /\ friend \in Range(filteredUsers)
    /\ ~isSelected(gameState, friend)
    /\ Len(gameState.selectedFriends) >= MaxSelected

\* the Start Quiz button is rendered disabled (line 2535)
startDisabled ==
    selectionScreen /\ Len(gameState.selectedFriends) < MaxSelected

Directory == [i \in 1..NumFriends |-> i]

\* the accounts the user follows arrive as one page, the last one
DirectoryPage == [users |-> Directory, nextCursor |-> NoCursor]

\* the pages of a collaborator that lists the accounts followed in their
\* order, `size` to a page: after `got` accounts the next ones follow; a
\* page that is not full is the last one, a full page is the last one or
\* gives a cursor
DirectoryPages(got, size) ==
    {[users |-> SubSeq(Directory, got + 1, got + len), nextCursor |-> next] :
        len \in {n \in 0..size : got + n <= NumFriends},
        next \in Cursors \cup {NoCursor}}
    \cap {page \in Pages(Fids, size) :
            Len(page.users) < size => page.nextCursor = NoCursor}

Init ==
    /\ gameState = InitialGameState
    /\ loading = FALSE
    /\ error = NoError
    /\ allUsers = << >>
    /\ filteredUsers = << >>
    /\ mounted = "init"
    /\ inflight = << >>
    /\ unanswered = FALSE
    /\ loader = NoLoader
    /\ searchQuery = << >>
    /\ lastOp = [name |-> "mount", arg |-> 0, phase |-> "Selecting",
                 twice |-> FALSE, wrong |-> 0]

\* fetchAllFriends, lines 1960-2024: the effect starts the load and requests
\* the first page
FetchAllFriendsStart ==
    /\ mounted = "init"
    /\ mounted' = "fetching"
    /\ loading' = TRUE
    /\ error' = NoError
    /\ loader' = NoLoader
    /\ lastOp' = Record("fetchAllFriends", 0)
    /\ UNCHANGED <<gameState, allUsers, filteredUsers, inflight, unanswered,
                   searchQuery>>

\* the page requested with loader.cursor arrives, lines 1988-2007: either
\* the next page is requested, or the load ends (lines 2009-2011 and 2019)
\* and the search effect, which depends on allUsers, runs again
FetchAllFriendsPage(page, limit, target) ==
    LET got == fetchedPage(loader, page, limit, target)
    IN  /\ mounted = "fetching"
        /\ ~unanswered
        /\ IF got.again
           THEN /\ loader' = [allUsers |-> got.allUsers, cursor |-> got.cursor]
                /\ lastOp' = Record("fetchAllFriendsPage", page)
                /\ UNCHANGED <<mounted, allUsers, filteredUsers, loading, error>>
           ELSE /\ mounted' = "done"
                /\ allUsers' = got.allUsers
                /\ filteredUsers' = searchFilter(got.allUsers, searchQuery)
                /\ error' = IF trim(searchQuery) = << >> THEN error ELSE NoError
                /\ loading' = FALSE
                /\ loader' = NoLoader
                /\ lastOp' = Record("fetchAllFriendsDone", page)
        /\ UNCHANGED <<gameState, inflight, unanswered, searchQuery>>

\* the request for a page fails: lines 1978-1986 and 2012-2019
FetchAllFriendsFailed(failure) ==
    LET caught == fetchFailed(loader, failure)
    IN  /\ mounted = "fetching"
        /\ ~unanswered
        /\ mounted' = "failed"
        /\ error' = caught.error
        /\ filteredUsers' = caught.filteredUsers
        /\ loading' = FALSE
        /\ loader' = NoLoader
        /\ lastOp' = Record("fetchAllFriendsFailed",
                            [failure |-> failure, fetched |-> loader.allUsers])
        /\ UNCHANGED <<gameState, allUsers, inflight, unanswered, searchQuery>>

\* onChange of the search box (line 2421) and the search effect that follows
\* the render, lines 2027-2053
SetSearchQuery(query) ==
    /\ selectionScreen
    /\ query # searchQuery
    /\ searchQuery' = query
    /\ filteredUsers' = searchFilter(allUsers, query)
    /\ error' = IF trim(query) = << >> THEN error ELSE NoError
    /\ lastOp' = Record("setSearchQuery", query)
    /\ UNCHANGED <<gameState, loading, allUsers, mounted, inflight, unanswered,
                   loader>>

ToggleFriend(friend, ui) ==
    LET next == toggleFriend(gameState, friend)
        offered == toggleOffered(friend)
    IN  /\ Allowed(ui, offered, toggleDisabled(friend))
        /\ gameState' = next
        /\ lastOp' = Record("toggleFriend", friend)
        /\ UNCHANGED <<loading, error, allUsers, filteredUsers, mounted, inflight,
                     unanswered, loader, searchQuery>>

\* generateQuiz(gameState.selectedFriends) up to its first await, lines
\* 2056-2069
GenerateQuizStart(ui) ==
    LET selectedFriends == gameState.selectedFriends
    IN  /\ Allowed(ui, startOffered, startDisabled)
        /\ IF rejects(selectedFriends)
           THEN UNCHANGED <<loading, error, inflight>>
           ELSE /\ loading' = TRUE
                /\ error' = NoError
                /\ inflight' = Append(inflight, selectedFriends)
        /\ lastOp' = Record("generateQuiz", 0)
        /\ UNCHANGED <<gameState, allUsers, filteredUsers, mounted, unanswered, loader, searchQuery>>

\* the rest of the k-th generateQuiz call in flight, lines 2070-2144, once
\* its fetches have returned with `outcome`
GenerateQuizDone(k, outcome, seed) ==
    LET done == generateQuiz(gameState, inflight[k], outcome, seed, error)
    IN  /\ ~unanswered
        /\ gameState' = done.gameState
        /\ error' = done.error
        /\ loading' = FALSE
        /\ inflight' = RemoveAt(inflight, k)
        /\ lastOp' = [Record("generateQuizDone",
                              [selectedFriends |-> inflight[k],
                               outcome |-> outcome, seed |-> seed])
                       EXCEPT !.wrong = IF done.gameState = gameState THEN @ ELSE 0]
        /\ UNCHANGED <<allUsers, filteredUsers, mounted, unanswered, loader, searchQuery>>

GenerateQuizReturns(seeds) ==
    \E k \in DOMAIN inflight :
        \E outcome \in FetchOutcomes(Len(inflight[k])) :
            \E seed \in seeds : GenerateQuizDone(k, outcome, seed)

\* the rest of a generateQuiz call whose fetches were all answered by a
\* server without an API key
GenerateQuizUnconfigured(seeds) ==
    \E k \in DOMAIN inflight :
        \E seed \in seeds :
            GenerateQuizDone(k, [i \in DOMAIN inflight[k] |-> castsResponse(FALSE, TRUE)],
                             seed)

SelectAnswer(friend, ui) ==
    LET next == selectAnswer(gameState, gameState, friend)
        offered == answerOffered(friend)
    IN  /\ Allowed(ui, offered, Phase(gameState) # "Playing" /\ friend = 1)
        /\ gameState' = next
        /\ lastOp' = [Record("selectAnswer", friend)
                       EXCEPT !.wrong = @ + isWrong(gameState, friend)]
        /\ UNCHANGED <<loading, error, allUsers, filteredUsers, mounted, inflight,
                     unanswered, loader, searchQuery>>

\* two clicks handled by the selectAnswer of one render: the second call
\* still reads the question of that render, its updater the updated state
SelectAnswerTwice(first, second) ==
    /\ answerOffered(first)
    /\ answerOffered(second)
    /\ gameState' = selectAnswer(gameState,
                                 selectAnswer(gameState, gameState, first), second)
    /\ lastOp' = [Record("selectAnswerTwice", first)
                   EXCEPT !.twice = TRUE,
                          !.wrong = @ + isWrong(gameState, first)
                                      + isWrong(gameState, second)]
    /\ UNCHANGED <<loading, error, allUsers, filteredUsers, mounted, inflight,
                     unanswered, loader, searchQuery>>

ResetGame(ui) ==
    /\ Allowed(ui, resetOffered, TRUE)
    /\ gameState' = resetGame
    /\ lastOp' = [Record("resetGame", 0) EXCEPT !.wrong = 0]
    /\ UNCHANGED <<loading, error, allUsers, filteredUsers, mounted, inflight,
                     unanswered, loader, searchQuery>>

\* a fetch that is outstanding (a page of /api/following, line 1973, or the
\* casts of a friend, line 2067) gets no response, now or later: the await
\* never resumes
FetchNeverResponds ==
    /\ mounted = "fetching" \/ inflight # << >>
    /\ ~unanswered
    /\ unanswered' = TRUE
    /\ lastOp' = Record("fetchNeverResponds", 0)
    /\ UNCHANGED <<gameState, loading, error, allUsers, filteredUsers, mounted,
                   inflight, loader, searchQuery>>

\* the load of the accounts the user follows
LoadFriends ==
    \/ FetchAllFriendsStart
    \/ FetchAllFriendsPage(DirectoryPage, PageLimit, TargetCount)
    \/ \E failure \in PageFailure : FetchAllFriendsFailed(failure)

\* the user picks friends in the order of the list and unselects none
picksNext(friend) ==
    \A i \in DOMAIN gameState.selectedFriends :
        gameState.selectedFriends[i] < friend

\* the component as the user drives it
Next ==
    \/ LoadFriends
    \/ \E friend \in Fids : ToggleFriend(friend, TRUE)
    \/ GenerateQuizStart(TRUE)
    \/ GenerateQuizReturns(0..MaxSeed)
    \/ \E friend \in Fids : SelectAnswer(friend, TRUE)
    \/ ResetGame(TRUE)

Spec == Init /\ [][Next]_vars

\* the component with direct calls of its handlers; what the handlers accept
\* or reject does not depend on the random draws of generateQuiz, which are
\* those of seed 0 here
NextHandlers ==
    \/ LoadFriends
    \/ \E friend \in Fids : ToggleFriend(friend, FALSE)
    \/ GenerateQuizStart(FALSE)
    \/ GenerateQuizReturns({0})
    \/ \E friend \in Fids : SelectAnswer(friend, FALSE)
    \/ ResetGame(FALSE)

SpecHandlers == Init /\ [][NextHandlers]_vars

\* the component with two clicks reaching the selectAnswer of one render
NextStale ==
    \/ Next
    \/ \E first, second \in Fids : SelectAnswerTwice(first, second)

SpecStale == Init /\ [][NextStale]_vars

\* the generation of quizzes under more outcomes of Math.random, for every
\* set of 5 friends picked in the order of the list
NextGen ==
    \/ LoadFriends
    \/ \E friend \in Fids : picksNext(friend) /\ ToggleFriend(friend, TRUE)
    \/ GenerateQuizStart(TRUE)
    \/ GenerateQuizReturns(0..MaxGenSeed)

SpecGen == Init /\ [][NextGen]_vars

\* the load and the generation of quizzes when a fetch may stay unanswered.
\* A response that arrives resumes the handler awaiting it, so the steps
\* that handle a response are weakly fair; nothing in the code makes the
\* user act or the network answer.  GenerateQuizReturns is enabled exactly
\* when a call is in flight and answered, and it ends that call, so its weak
\* fairness is stated as: again and again no answered call is in flight.
NextLive ==
    \/ LoadFriends
    \/ \E friend \in Fids : picksNext(friend) /\ ToggleFriend(friend, TRUE)
    \/ GenerateQuizStart(TRUE)
    \/ GenerateQuizReturns(0..MaxSeed)
    \/ FetchNeverResponds

SpecLive ==
    /\ Init
    /\ [][NextLive]_vars
    /\ WF_vars(LoadFriends)
    /\ []<>(inflight = << >> \/ unanswered)

\* the generation of quizzes when the server may have lost its API key
NextConfig ==
    \/ LoadFriends
    \/ \E friend \in Fids : picksNext(friend) /\ ToggleFriend(friend, TRUE)
    \/ GenerateQuizStart(TRUE)
    \/ GenerateQuizReturns(0..MaxSeed)
    \/ GenerateQuizUnconfigured(0..MaxSeed)

SpecConfig == Init /\ [][NextConfig]_vars

\* the load against every behaviour of the friends collaborator, with the
\* search box and the selection of the friends listed.  The effect that
\* starts the load runs once the fid of the user is known, and a response
\* that arrives resumes fetchAllFriends: both are weakly fair.
LoadResponse ==
    \/ \E page \in Pages(1..MaxPageFid, LoadPageSize) :
          FetchAllFriendsPage(page, LoadPageSize, LoadTarget)
    \/ \E failure \in PageFailure : FetchAllFriendsFailed(failure)

NextLoad ==
    \/ FetchAllFriendsStart
    \/ LoadResponse
    \/ \E query \in Queries : SetSearchQuery(query)
    \/ \E friend \in Fids : picksNext(friend) /\ ToggleFriend(friend, TRUE)

SpecLoad ==
    /\ Init
    /\ [][NextLoad]_vars
    /\ WF_vars(FetchAllFriendsStart)
    /\ WF_vars(LoadResponse)

\* the load of several pages from a collaborator that lists the accounts
\* followed in order, a page of which may fail, with the search box and the
\* selection of the friends listed
NextSearch ==
    \/ FetchAllFriendsStart
    \/ \E page \in DirectoryPages(Len(loader.allUsers), LoadPageSize) :
          FetchAllFriendsPage(page, LoadPageSize, LoadTarget)
    \/ \E failure \in PageFailure : FetchAllFriendsFailed(failure)
    \/ \E query \in Queries : SetSearchQuery(query)
    \/ \E friend \in Fids : picksNext(friend) /\ ToggleFriend(friend, TRUE)

SpecSearch == Init /\ [][NextSearch]_vars

----------------------------------------------------------------------------
(* Claims *)

FreshGameState ==
    [selectedFriends |-> << >>, questions |-> << >>, currentQuestionIndex |-> 0,
     score |-> 0, gameStarted |-> FALSE, gameFinished |-> FALSE,
     answers |-> EmptyAnswers]

\* the questions whose recorded answer is their correct friend
correctlyAnswered(gs) ==
    {i \in DOMAIN gs.questions :
        /\ gs.questions[i].cast.hash \in DOMAIN gs.answers
        /\ gs.answers[gs.questions[i].cast.hash] = gs.questions[i].correctFriend}

\* C1: in every reachable state score equals the number of questions whose
\* recorded answer, answers[cast hash], is the fid of the question's
\* correctFriend.
C1_ScoreCountsCorrectAnswers ==
    gameState.score = Cardinality(correctlyAnswered(gameState))

\* C2: when selectAnswer is called twice against the same current question,
\* the second call has no effect: the index advances by exactly 1, the score
\* grows by at most 1 and the recorded answer is the one of the first call.
C2_SecondCallHasNoEffect ==
    [][lastOp'.name = "selectAnswerTwice" =>
         /\ gameState'.currentQuestionIndex = gameState.currentQuestionIndex + 1
         /\ gameState'.score <= gameState.score + 1
         /\ gameState'.answers[currentQuestion(gameState).cast.hash] = lastOp'.arg
      ]_vars

isPermutationFree(s) == \A i, j \in DOMAIN s : s[i] = s[j] => i = j

\* C3: every question of a generated quiz has exactly 5 options, its
\* correctFriend at exactly one position and no fid at two positions.
C3_OptionsWellFormed ==
    \A n \in DOMAIN gameState.questions :
        LET q == gameState.questions[n]
        IN  /\ Len(q.options) = 5
            /\ Cardinality({i \in DOMAIN q.options : q.options[i] = q.correctFriend}) = 1
            /\ isPermutationFree(q.options)

\* a quiz was generated and its random sorts moved the correct friend away
\* from the first option in one question and not in another
C3_Witness ==
    /\ Len(gameState.questions) = 5
    /\ \E n \in DOMAIN gameState.questions :
          gameState.questions[n].options[1] # gameState.questions[n].correctFriend
    /\ \E n \in DOMAIN gameState.questions :
          gameState.questions[n].options[1] = gameState.questions[n].correctFriend

\* C4: in every Playing or Finished state the options of each question are,
\* as a set of fids, the selected friends.
C4_OptionsAreSelectedFriends ==
    Phase(gameState) \in {"Playing", "Finished"} =>
        \A n \in DOMAIN gameState.questions :
            Range(gameState.questions[n].options) = Range(gameState.selectedFriends)

\* a quiz was played to its end
C4_Witness ==
    /\ Phase(gameState) = "Finished"
    /\ Len(gameState.questions) = 5
    /\ Len(gameState.selectedFriends) = 5

\* C5 as stated: in every state of every phase gameFinished is true if and
\* only if currentQuestionIndex >= questions.length.
C5_FinishedIffIndexAtEnd ==
    gameState.gameFinished <=>
        gameState.currentQuestionIndex >= Len(gameState.questions)

\* C5 amended: once a quiz has started, gameFinished is true if and only if
\* currentQuestionIndex >= questions.length; before it has, gameFinished is
\* false (with index 0 and no questions).
C5_FinishedIffIndexAtEndOnceStarted ==
    /\ gameState.gameStarted =>
          (gameState.gameFinished <=>
              gameState.currentQuestionIndex >= Len(gameState.questions))
    /\ ~gameState.gameStarted =>
          /\ ~gameState.gameFinished
          /\ gameState.currentQuestionIndex = 0
          /\ gameState.questions = << >>

\* the last question was answered
C5_Witness ==
    /\ lastOp.name = "selectAnswer"
    /\ gameState.gameFinished
    /\ gameState.currentQuestionIndex = 5
    /\ Len(gameState.questions) = 5

\* s is t with the element x taken out, the others in their order
isWithout(s, t, x) ==
    /\ Len(s) = Len(t) - 1
    /\ \E k \in DOMAIN t :
          /\ t[k] = x
          /\ \A i \in DOMAIN s : s[i] = IF i < k THEN t[i] ELSE t[i + 1]

\* C6: toggleFriend never makes selectedFriends longer than 5; it removes
\* exactly the friend when that friend is selected, appends the friend when
\* it is not and fewer than 5 are, and changes nothing when it is not and 5
\* are selected.  It touches no other field.
C6_ToggleFriendBounded ==
    [][/\ Len(gameState'.selectedFriends) <= 5
       /\ lastOp'.name = "toggleFriend" =>
            LET f == lastOp'.arg
                before == gameState.selectedFriends
                after == gameState'.selectedFriends
            IN  /\ f \in Range(before) => isWithout(after, before, f)
                /\ (f \notin Range(before) /\ Len(before) < 5) =>
                        after = before \o <<f>>
                /\ (f \notin Range(before) /\ Len(before) >= 5) =>
                        after = before
                /\ [gameState' EXCEPT !.selectedFriends = before] = gameState
                /\ UNCHANGED <<loading, error, inflight>>
      ]_vars

\* toggleFriend was called for an unselected friend while 5 were selected
C6_Witness ==
    /\ lastOp.name = "toggleFriend"
    /\ lastOp.arg \notin Range(gameState.selectedFriends)
    /\ Len(gameState.selectedFriends) = 5

toggledTwice(gs, f) == toggleFriend(toggleFriend(gs, f), f)

\* C7 as stated: in every Selecting state, toggleFriend(f) applied twice
\* gives the state back, selectedFriends in the same order included.
C7_ToggleTwiceIsIdentity ==
    Phase(gameState) = "Selecting" =>
        \A f \in Fids : toggledTwice(gameState, f) = gameState

\* C7 amended: in every Selecting state, toggleFriend(f) applied twice gives
\* back the same set of selected friends and leaves every other field alone;
\* the order is the same when f was not selected, and when f was selected f
\* has moved to the end, the others keeping their order.
C7_ToggleTwiceKeepsMembers ==
    Phase(gameState) = "Selecting" =>
        \A f \in Fids :
            LET before == gameState.selectedFriends
                after == toggledTwice(gameState, f).selectedFriends
            IN  /\ Range(after) = Range(before)
                /\ Len(after) = Len(before)
                /\ [toggledTwice(gameState, f) EXCEPT !.selectedFriends = before]
                      = gameState
                /\ f \notin Range(before) => after = before
                /\ f \in Range(before) =>
                      /\ after[Len(after)] = f
                      /\ isWithout(SubSeq(after, 1, Len(after) - 1), before, f)

\* toggleFriend was called twice in a row for a friend that was selected
\* and not the last one: it is selected again, now behind the others
C7_Witness ==
    /\ lastOp.name = "toggleFriend"
    /\ lastOp.twice
    /\ Len(gameState.selectedFriends) >= 3
    /\ gameState.selectedFriends[Len(gameState.selectedFriends)] = lastOp.arg
    /\ lastOp.arg < gameState.selectedFriends[1]

\* C8: toggleFriend called in Playing or Finished leaves the whole game
\* state unchanged, so selectedFriends is frozen until resetGame.
C8_ToggleIgnoredOnceStarted ==
    Phase(gameState) \in {"Playing", "Finished"} =>
        \A f \in Fids : toggleFriend(gameState, f) = gameState

\* C9: resetGame, called in any state, yields the fresh initial state.
C9_ResetYieldsFreshState ==
    lastOp.name = "resetGame" =>
        /\ gameState = FreshGameState
        /\ gameState = InitialGameState
        /\ Phase(gameState) = "Selecting"

\* resetGame was called in the middle of a quiz
C9_Witness ==
    /\ lastOp.name = "resetGame"
    /\ lastOp.phase = "Playing"

\* C10: generateQuiz called with other than 5 selected friends issues no
\* fetch and leaves phase, selectedFriends, questions, score, index and
\* answers (and loading and error) as they were.
C10_GenerateQuizRejected ==
    [][(lastOp'.name = "generateQuiz" /\ Len(gameState.selectedFriends) # 5) =>
          /\ gameState' = gameState
          /\ inflight' = inflight
          /\ loading' = loading
          /\ error' = error
      ]_vars

\* generateQuiz was called with 4 selected friends, in Selecting
C10_Witness ==
    /\ lastOp.name = "generateQuiz"
    /\ lastOp.phase = "Selecting"
    /\ Len(gameState.selectedFriends) = 4
    /\ inflight = << >>

\* the fetches a generateQuiz call issued: the loop stops at the first fetch
\* that throws
issued(outcome) ==
    {i \in DOMAIN outcome : \A j \in 1..(i - 1) : outcome[j] # "throw"}

\* the fetched posts with 20 < text.length < 200, as <<position of the
\* friend in the selection, position of the post in the friend's feed>>
eligibleFetched(call) ==
    {p \in issued(call.outcome) \X (1..3) :
        /\ call.outcome[p[1]] = "ok"
        /\ p[2] \in DOMAIN Feed(call.selectedFriends[p[1]])
        /\ Feed(call.selectedFriends[p[1]])[p[2]].len > 20
        /\ Feed(call.selectedFriends[p[1]])[p[2]].len < 200}

noFetchThrew(call) == \A i \in DOMAIN call.outcome : call.outcome[i] # "throw"

\* C11: when generateQuiz succeeds from Selecting with 5 selected friends, the
\* state it leaves is Playing (gameStarted true, gameFinished false) with the
\* 5 generated questions, currentQuestionIndex 0, score 0, no answers, and
\* the selection it was called with.
C11_SuccessStartsQuiz ==
    [][(/\ lastOp'.name = "generateQuizDone"
        /\ Phase(gameState) = "Selecting"
        /\ noFetchThrew(lastOp'.arg)
        /\ Cardinality(eligibleFetched(lastOp'.arg)) >= 5) =>
          /\ Phase(gameState') = "Playing"
          /\ gameState'.gameStarted /\ ~gameState'.gameFinished
          /\ Len(gameState'.questions) = 5
          /\ gameState'.questions =
                makeQuestions(lastOp'.arg.selectedFriends, lastOp'.arg.outcome,
                              lastOp'.arg.seed)
          /\ gameState'.currentQuestionIndex = 0
          /\ gameState'.score = 0
          /\ DOMAIN gameState'.answers = {}
          /\ gameState'.selectedFriends = gameState.selectedFriends
          /\ gameState'.selectedFriends = lastOp'.arg.selectedFriends
          /\ Len(gameState'.selectedFriends) = 5
      ]_vars

\* a generateQuiz call whose 5 fetches all answered ok has just returned
C11_Witness ==
    /\ lastOp.name = "generateQuizDone"
    /\ \A i \in DOMAIN lastOp.arg.outcome : lastOp.arg.outcome[i] = "ok"
    /\ Phase(gameState) = "Playing"
    /\ Len(gameState.questions) = 5

generateQuizFailed(call) ==
    ~noFetchThrew(call) \/ Cardinality(eligibleFetched(call)) < 5

\* C12: when generateQuiz fails (too few eligible posts, or an error while
\* fetching) the game state is what it was before the call (Selecting, the
\* same selection, questions, score, index and answers), a non-empty error
\* message is set and loading is false, so that Start Quiz can be clicked
\* again.
C12_FailureLeavesState ==
    [][/\ (inflight # << >> /\ lastOp'.name # "generateQuizDone") =>
            gameState' = gameState
       /\ (lastOp'.name = "generateQuizDone" /\ generateQuizFailed(lastOp'.arg)) =>
            /\ gameState' = gameState
            /\ gameState'.selectedFriends = lastOp'.arg.selectedFriends
            /\ Phase(gameState') = "Selecting"
            /\ error' \notin {NoError, ""}
            /\ loading' = FALSE
            /\ startOffered'
      ]_vars

\* a generateQuiz call found fewer than 5 eligible posts and has returned
C12_Witness ==
    /\ lastOp.name = "generateQuizDone"
    /\ noFetchThrew(lastOp.arg)
    /\ Cardinality(eligibleFetched(lastOp.arg)) < 5
    /\ error = ErrNotEnough
    /\ ~loading

\* question q is built from the fetched eligible post p
builtFrom(q, p, call) ==
    LET friend == call.selectedFriends[p[1]]
        post == Feed(friend)[p[2]]
    IN  /\ q.cast.hash = post.hash
        /\ q.cast.len = post.len
        /\ q.cast.author = friend

\* every question is built from a fetched eligible post, no two questions
\* from the same one
fromEligible(questions, call) ==
    /\ \A n \in DOMAIN questions :
          \E p \in eligibleFetched(call) : builtFrom(questions[n], p, call)
    /\ \A m, n \in DOMAIN questions :
          questions[m].cast = questions[n].cast => m = n

\* C13: generateQuiz with 5 selected friends succeeds if and only if at least
\* 5 of the fetched posts have 20 < text.length < 200; when it succeeds it
\* produces exactly 5 questions, each from such a post, and when it does not
\* it fails with the error of insufficient content.
C13_SucceedsIffEnoughEligible ==
    [][lastOp'.name = "generateQuizDone" =>
          /\ gameState'.gameStarted <=>
                Cardinality(eligibleFetched(lastOp'.arg)) >= 5
          /\ gameState'.gameStarted =>
                /\ Len(gameState'.questions) = 5
                /\ \A n \in DOMAIN gameState'.questions :
                      /\ gameState'.questions[n].cast.len > 20
                      /\ gameState'.questions[n].cast.len < 200
                /\ fromEligible(gameState'.questions, lastOp'.arg)
          /\ ~gameState'.gameStarted => error' = ErrNotEnough
      ]_vars

\* the eligible posts of the friends whose fetch does not fail
eligibleOfOthers(call) ==
    {p \in (DOMAIN call.outcome) \X (1..3) :
        /\ call.outcome[p[1]] = "ok"
        /\ p[2] \in DOMAIN Feed(call.selectedFriends[p[1]])
        /\ Feed(call.selectedFriends[p[1]])[p[2]].len > 20
        /\ Feed(call.selectedFriends[p[1]])[p[2]].len < 200}

\* C14: a failed fetch for one selected friend, a response that is not ok or
\* a fetch that throws, makes that friend contribute no post and does not
\* abort generateQuiz: the quiz is generated whenever the other friends
\* supply at least 5 eligible posts.
C14_FailedFetchIsSkipped ==
    [][(/\ lastOp'.name = "generateQuizDone"
        /\ \E i \in DOMAIN lastOp'.arg.outcome : lastOp'.arg.outcome[i] # "ok"
        /\ Cardinality(eligibleOfOthers(lastOp'.arg)) >= 5) =>
          /\ gameState'.gameStarted
          /\ Len(gameState'.questions) = 5
          /\ \A n \in DOMAIN gameState'.questions :
                \E i \in DOMAIN lastOp'.arg.outcome :
                    /\ lastOp'.arg.selectedFriends[i] =
                          gameState'.questions[n].cast.author
                    /\ lastOp'.arg.outcome[i] = "ok"
      ]_vars

\* C15: in every generated quiz each question's correctFriend is the selected
\* friend whose fetch returned the question's post, and the author tagged on
\* the cast is that friend; a selected friend whose fetch failed or returned
\* no eligible post is the correctFriend of no question.
C15_CorrectFriendIsAuthor ==
    [][lastOp'.name = "generateQuizDone" =>
          LET call == lastOp'.arg
              questions == gameState'.questions
          IN  /\ \A n \in DOMAIN questions :
                    /\ questions[n].cast.author = questions[n].correctFriend
                    /\ \E p \in eligibleFetched(call) :
                          /\ builtFrom(questions[n], p, call)
                          /\ call.selectedFriends[p[1]] = questions[n].correctFriend
              /\ \A i \in DOMAIN call.selectedFriends :
                    (\/ call.outcome[i] # "ok"
                     \/ \A p \in eligibleFetched(call) : p[1] # i) =>
                        \A n \in DOMAIN questions :
                            questions[n].correctFriend # call.selectedFriends[i]
      ]_vars

\* a quiz was generated although the fetch for one selected friend was not
\* ok and another selected friend had no eligible post
C15_Witness ==
    /\ lastOp.name = "generateQuizDone"
    /\ Len(gameState.questions) = 5
    /\ \E i \in DOMAIN lastOp.arg.outcome : lastOp.arg.outcome[i] = "notok"
    /\ \E i \in DOMAIN lastOp.arg.outcome :
          /\ lastOp.arg.outcome[i] = "ok"
          /\ \A p \in eligibleFetched(lastOp.arg) : p[1] # i

answered(gs) ==
    IF gs.currentQuestionIndex < Len(gs.questions)
    THEN gs.currentQuestionIndex ELSE Len(gs.questions)

\* C16: answers holds exactly one entry per answered question: its number of
\* entries is currentQuestionIndex (capped at questions.length) in every
\* state, and an entry once written keeps its value under every operation
\* but resetGame and the start of a new quiz.
C16_OneAnswerPerQuestion ==
    [][/\ Cardinality(DOMAIN gameState'.answers) = answered(gameState')
       /\ lastOp'.name \notin {"resetGame", "generateQuizDone"} =>
            \A h \in DOMAIN gameState.answers :
                /\ h \in DOMAIN gameState'.answers
                /\ gameState'.answers[h] = gameState.answers[h]
      ]_vars

\* C17: selectAnswer called in Selecting or Finished, where there is no
\* question at currentQuestionIndex, changes nothing: score, index, answers,
\* phase and every other field of the game state, loading and error stay
\* as they were.
C17_SelectAnswerIgnoredOutsidePlaying ==
    [][(lastOp'.name = "selectAnswer" /\ Phase(gameState) # "Playing") =>
          /\ ~hasCurrentQuestion(gameState)
          /\ gameState' = gameState
          /\ Phase(gameState') = Phase(gameState)
          /\ UNCHANGED <<loading, error, allUsers, filteredUsers, inflight>>
      ]_vars

\* selectAnswer was called on the results screen of a finished quiz
C17_Witness ==
    /\ lastOp.name = "selectAnswer"
    /\ lastOp.phase = "Finished"
    /\ Phase(gameState) = "Finished"
    /\ Len(gameState.questions) = 5

\* C18: the phase only moves Selecting -> Playing -> Finished: Playing is
\* entered only from Selecting by a generateQuiz call that succeeds, Finished
\* only from Playing by selectAnswer on the last question, and Selecting is
\* re-entered only by resetGame.
C18_PhaseOrder ==
    [][LET before == Phase(gameState)
           after == Phase(gameState')
       IN  /\ (before # after /\ after = "Playing") =>
                /\ before = "Selecting"
                /\ lastOp'.name = "generateQuizDone"
                /\ ~generateQuizFailed(lastOp'.arg)
           /\ (before # after /\ after = "Finished") =>
                /\ before = "Playing"
                /\ lastOp'.name = "selectAnswer"
                /\ gameState.currentQuestionIndex = Len(gameState.questions) - 1
           /\ (before # after /\ after = "Selecting") =>
                lastOp'.name = "resetGame"
      ]_vars

\* a quiz was started, played to its end and reset with Play Again
C18_Witness ==
    /\ lastOp.name = "resetGame"
    /\ lastOp.phase = "Finished"
    /\ Phase(gameState) = "Selecting"

\* C19: at most one quiz generation is in flight: while a generateQuiz call
\* is outstanding loading is set and Start Quiz is not offered, and the load
\* of the friend directory, which sets and clears the same flag, is never
\* outstanding together with a generateQuiz call.
C19_OneGenerationInFlight ==
    /\ Len(inflight) <= 1
    /\ inflight # << >> => (loading /\ ~startOffered /\ ~selectionScreen)
    /\ mounted = "fetching" => (loading /\ inflight = << >>)

\* a generateQuiz call is outstanding
C19_Witness ==
    /\ inflight # << >>
    /\ lastOp.name = "generateQuiz"
    /\ Len(gameState.selectedFriends) = 5
    /\ mounted = "done"

\* C20: a fetch that never responds is given up after a bounded wait, so
\* generateQuiz and fetchAllFriends eventually complete: whenever loading is
\* true it eventually is false again.
C20_LoadingEventuallyClears == loading ~> ~loading

\* the elements of s in the order of their first occurrence, each once
RECURSIVE firstOccurrences(_)
firstOccurrences(s) ==
    IF s = << >> THEN << >>
    ELSE LET before == firstOccurrences(SubSeq(s, 1, Len(s) - 1))
         IN  IF s[Len(s)] \in Range(before) THEN before
             ELSE Append(before, s[Len(s)])

\* a page of friends has just been handled by fetchAllFriends
pageHandled == lastOp'.name \in {"fetchAllFriendsPage", "fetchAllFriendsDone"}

\* the friends gathered by the load after the step: the list it published
\* when it ended, its local list while it goes on
gathered == IF mounted' = "done" THEN allUsers' ELSE loader'.allUsers

\* C21: whatever pages the collaborator returns, the list fetchAllFriends
\* produces holds each fid at most once, in the order of first occurrence
\* across the pages: after every page the list is the first occurrences of
\* the list before it followed by the users of the page.
C21_FriendsOnceInFirstSeenOrder ==
    [][pageHandled =>
          /\ gathered = firstOccurrences(loader.allUsers \o lastOp'.arg.users)
          /\ isPermutationFree(gathered)
      ]_vars

\* C22: fetchAllFriends goes on requesting the next page, with the cursor the
\* previous page returned, until the friends gathered reach the target or the
\* page has no nextCursor; while fetches succeed it stops for no other reason.
C22_StopsOnlyAtTargetOrLastPage ==
    [][pageHandled =>
          /\ mounted' = "done" <=>
                \/ Len(gathered) >= LoadTarget
                \/ lastOp'.arg.nextCursor = NoCursor
          /\ mounted' = "fetching" => loader'.cursor = lastOp'.arg.nextCursor
      ]_vars

\* C23: when a page fetch of fetchAllFriends fails, loading ends, an error
\* message is set and no friend of the pages fetched before is shown: the
\* list of friends is empty, not the partial list, and stays empty whatever
\* is typed into the search box.
C23_FailedLoadShowsNoFriends ==
    [][/\ lastOp'.name = "fetchAllFriendsFailed" =>
            /\ loading' = FALSE
            /\ error' \notin {NoError, ""}
            /\ mounted' = "failed"
       /\ mounted' = "failed" =>
            /\ filteredUsers' = << >>
            /\ allUsers' = << >>
            /\ \A friend \in Fids : ~toggleOffered(friend)'
      ]_vars

\* the second page of a load failed, after a first page with friends
C23_Witness ==
    /\ lastOp.name = "fetchAllFriendsFailed"
    /\ lastOp.arg.fetched # << >>
    /\ filteredUsers = << >>
    /\ ~loading

\* the same letter, whatever the case
sameLetter(c, d) == c = d \/ {c, d} = {"a", "A"} \/ {c, d} = {"b", "B"}

\* name contains query, case-insensitively
containsIgnoringCase(name, query) ==
    \E i \in 0..(Len(name) - Len(query)) :
        \A j \in 1..Len(query) : sameLetter(name[i + j], query[j])

named(friend, query) ==
    \/ containsIgnoringCase(Username(friend), query)
    \/ containsIgnoringCase(DisplayName(friend), query)

\* s is the sub-list of t, in the order of t, of the elements that satisfy
\* keep
isSublistOf(s, t, keep(_)) ==
    \E pos \in [DOMAIN s -> DOMAIN t] :
        /\ \A i, j \in DOMAIN s : i < j => pos[i] < pos[j]
        /\ \A i \in DOMAIN s : s[i] = t[pos[i]]
        /\ \A k \in DOMAIN t : keep(t[k]) <=> \E i \in DOMAIN s : pos[i] = k

queryChangeOnlyFilters ==
    lastOp'.name = "setSearchQuery" =>
        /\ searchQuery' = lastOp'.arg
        /\ UNCHANGED <<allUsers, gameState, mounted, inflight, loader, loading>>

\* C24 as stated: the list displayed is the sub-list of the loaded list, in
\* its order, of exactly the friends whose username or display name contains
\* the query case-insensitively (the whole list for the empty query);
\* changing the query issues no fetch and changes neither the loaded list nor
\* the game state.
C24_DisplayedListMatchesQuery ==
    [][/\ isSublistOf(filteredUsers', allUsers',
                      LAMBDA friend : named(friend, searchQuery'))
       /\ queryChangeOnlyFilters
      ]_vars

\* there is no character in the query, or only white space
isBlank(query) == \A i \in DOMAIN query : query[i] = " "

\* C24 amended: the list displayed is the whole loaded list when the query is
\* empty or only white space, and otherwise the sub-list of the loaded list,
\* in its order, of exactly the friends whose username or display name
\* contains the query (as typed, untrimmed) case-insensitively; changing the
\* query issues no fetch and changes neither the loaded list nor the game
\* state.
C24_DisplayedListMatchesNonBlankQuery ==
    [][/\ isBlank(searchQuery') => filteredUsers' = allUsers'
       /\ ~isBlank(searchQuery') =>
            isSublistOf(filteredUsers', allUsers',
                        LAMBDA friend : named(friend, searchQuery'))
       /\ queryChangeOnlyFilters
      ]_vars

\* a query was typed that hides a selected friend and shows another friend
C24_Witness ==
    /\ lastOp.name = "setSearchQuery"
    /\ ~isBlank(searchQuery)
    /\ filteredUsers # << >>
    /\ \E i \in DOMAIN gameState.selectedFriends :
          /\ gameState.selectedFriends[i] \in Range(allUsers)
          /\ gameState.selectedFriends[i] \notin Range(filteredUsers)

\* C30: fetchAllFriends terminates whatever the collaborator does, as long as
\* each fetch returns: a load that has started eventually ends with loading
\* false, even when the pages repeat friends and still give a next cursor.
C30_LoadTerminates == (mounted = "fetching") ~> (mounted # "fetching" /\ ~loading)

\* the questions whose correct friend is `friend`
questionsOf(gs, friend) ==
    {n \in DOMAIN gs.questions : gs.questions[n].correctFriend = friend}

\* of those, the questions whose recorded answer is `friend`
guessedOf(gs, friend) ==
    {n \in questionsOf(gs, friend) :
        /\ gs.questions[n].cast.hash \in DOMAIN gs.answers
        /\ gs.answers[gs.questions[n].cast.hash] = friend}

\* r is num / den rounded to the nearest integer (a half goes up)
isRounded(r, num, den) == 2 * den * r - den <= 2 * num /\ 2 * num < 2 * den * r + den

friendStatsRight(gs, friend) ==
    LET stats == friendPerformance(gs, friend)
        total == Cardinality(questionsOf(gs, friend))
        correct == Cardinality(guessedOf(gs, friend))
    IN  /\ stats.totalQuestions = total
        /\ stats.correctGuesses = correct
        /\ total > 0 =>
              /\ "accuracy" \in DOMAIN stats
              /\ isRounded(stats.accuracy, 100 * correct, total)

\* C25 as stated: in a Finished state, for each selected friend,
\* totalForFriend is the number of questions whose correctFriend is that
\* friend, correctForFriend the number of those whose recorded answer is the
\* friend's fid, accuracy is round(100 * correctForFriend / totalForFriend)
\* when totalForFriend > 0, and no accuracy is produced when it is 0.
C25_FriendAccuracy ==
    Phase(gameState) = "Finished" =>
        \A i \in DOMAIN gameState.selectedFriends :
            LET friend == gameState.selectedFriends[i]
                stats == friendPerformance(gameState, friend)
            IN  /\ friendStatsRight(gameState, friend)
                /\ stats.totalQuestions = 0 => "accuracy" \notin DOMAIN stats

\* C25 amended: in a Finished state, for each selected friend,
\* totalForFriend is the number of questions whose correctFriend is that
\* friend, correctForFriend the number of those whose recorded answer is the
\* friend's fid, accuracy is round(100 * correctForFriend / totalForFriend)
\* when totalForFriend > 0, and accuracy is 0 when totalForFriend is 0.
C25_FriendAccuracyZeroWithoutQuestions ==
    Phase(gameState) = "Finished" =>
        \A i \in DOMAIN gameState.selectedFriends :
            LET friend == gameState.selectedFriends[i]
                stats == friendPerformance(gameState, friend)
            IN  /\ friendStatsRight(gameState, friend)
                /\ stats.totalQuestions = 0 => stats.accuracy = 0

\* a quiz is finished in which one selected friend had no question and
\* another was guessed in some of its questions only
C25_Witness ==
    /\ Phase(gameState) = "Finished"
    /\ \E i \in DOMAIN gameState.selectedFriends :
          friendPerformance(gameState, gameState.selectedFriends[i]).totalQuestions = 0
    /\ \E i \in DOMAIN gameState.selectedFriends :
          LET stats == friendPerformance(gameState, gameState.selectedFriends[i])
          IN  0 < stats.correctGuesses /\ stats.correctGuesses < stats.totalQuestions

\* C26: when every selectAnswer call of a play-through chose the correct
\* friend of the current question, then in the Finished state score is
\* questions.length, the percentage is 100 and every selected friend with
\* questions of its own has accuracy 100.
C26_AllCorrectGivesFullMarks ==
    (Phase(gameState) = "Finished" /\ lastOp.wrong = 0) =>
        /\ gameState.score = Len(gameState.questions)
        /\ percentage(gameState) = 100
        /\ \A i \in DOMAIN gameState.selectedFriends :
              LET stats == friendPerformance(gameState, gameState.selectedFriends[i])
              IN  stats.totalQuestions > 0 => stats.accuracy = 100

\* C27: when /api/casts fails with a configuration error (no API key) during
\* generateQuiz, that error is shown to the user as a configuration error: it
\* is not reported as too few posts, the condition that asks to try again, nor
\* as an ordinary failure to generate.
C27_ConfigErrorSurfaced ==
    [][(/\ lastOp'.name = "generateQuizDone"
        /\ \E i \in DOMAIN lastOp'.arg.outcome :
              lastOp'.arg.outcome[i] = castsResponse(FALSE, TRUE)) =>
          /\ error' = ErrConfig
          /\ error' \notin {ErrNotEnough, ErrGenerate, NoError}
      ]_vars

\* C28: in every Playing state (gameStarted and not gameFinished) questions
\* is not empty and 0 <= currentQuestionIndex < questions.length: there is a
\* current question and the quiz screen shows it.
C28_PlayingHasCurrentQuestion ==
    Phase(gameState) = "Playing" =>
        /\ Len(gameState.questions) > 0
        /\ 0 <= gameState.currentQuestionIndex
        /\ gameState.currentQuestionIndex < Len(gameState.questions)
        /\ quizScreen

\* the quiz is at its last question
C28_Witness ==
    /\ Phase(gameState) = "Playing"
    /\ lastOp.name = "selectAnswer"
    /\ gameState.currentQuestionIndex = Len(gameState.questions) - 1
    /\ gameState.currentQuestionIndex = 4

\* C29: in every Finished state each question of the quiz has a recorded
\* answer, and that answer is the fid of one of the question's options, hence
\* of a selected friend: the results never show a guess as 'Unknown'.
C29_EveryQuestionHasRecordedAnswer ==
    Phase(gameState) = "Finished" =>
        \A n \in DOMAIN gameState.questions :
            LET q == gameState.questions[n]
            IN  /\ q.cast.hash \in DOMAIN gameState.answers
                /\ gameState.answers[q.cast.hash] \in Range(q.options)
                /\ gameState.answers[q.cast.hash] \in Range(gameState.selectedFriends)

\* a quiz was finished with a wrong answer among the recorded ones
C29_Witness ==
    /\ Phase(gameState) = "Finished"
    /\ lastOp.name = "selectAnswer"
    /\ lastOp.wrong > 0
    /\ Len(gameState.questions) = 5

====
